---- MODULE Spec2Model ----
(***************************************************************************)
(* Host AHCI driver (vancouver/host/hostahci.cc): one HostAhciPort with    *)
(* its command list, command tables, slot bookkeeping and port registers,  *)
(* the consumer submitting MessageDisk requests, the device completing     *)
(* commands, and the interrupt handler emitting MessageDiskCommit.         *)
(*                                                                         *)
(* 32-bit masks (CI, in_progress, CMD, IS, IE) are sets of bit positions.  *)
(* 32-bit words that take part in arithmetic (byte offsets, byte counts,   *)
(* lengths) are split at bit 22: [hi |-> bits 31..22, lo |-> bits 21..0],  *)
(* so that wrap-around modulo 2^32 and the ">> 22" test are computed as    *)
(* the code computes them.                                                 *)
(***************************************************************************)
EXTENDS Integers, Sequences, FiniteSets, TLC

\* ------------------------------------------------------------ bounds
\* Largest number of command slots a controller of the model reports.
MaxSlots == 2
\* Number of MessageDisk messages the consumer sends to the port.
MaxReq == 3
\* Number of messages the consumer of SpecDma sends.
MaxDmaReq == 1
\* Number of irq() runs that find TFD.ERR set.
MaxErr == 1
\* Number of messages the consumer of SpecConc sends.
MaxConcReq == 2
\* Number of ports the controller of SpecHba has.
NPorts == 3
\* Number of MessageIrq messages HostAhci receives in SpecHba.
MaxIrq == 1

\* ------------------------------------------------- program constants
MAX_PRD_COUNT == 64
\* ~0 written into _usertags[tag] once a slot has been reported.
TAG_INVALID == -1

\* ------------------------------------------------------ 32-bit words
LoSize == 4194304      \* 2^22
HiSize == 1024         \* 2^10

W(h, l) == [hi |-> h, lo |-> l]
Small(n) == W(0, n)

\* a + b modulo 2^32
Add32(a, b) ==
  LET s == a.lo + b.lo
  IN  W((a.hi + b.hi + (s \div LoSize)) % HiSize, s % LoSize)

\* a - 1 modulo 2^32
Dec32(a) ==
  IF a.lo > 0 THEN W(a.hi, a.lo - 1)
  ELSE W((a.hi + HiSize - 1) % HiSize, LoSize - 1)

Gt32(a, b) == a.hi > b.hi \/ (a.hi = b.hi /\ a.lo > b.lo)

\* a + b > c over the integers (no wrap-around)
SumExceeds(a, b, c) ==
  LET s == a.lo + b.lo
      h == a.hi + b.hi + (s \div LoSize)
  IN  h > c.hi \/ (h = c.hi /\ (s % LoSize) > c.lo)

\* ------------------------------------------------------ addresses
\* A pointer is the region it points into and the byte offset in it.
Ptr(r, o) == [space |-> "virt", region |-> r, off |-> o]
GarbagePtr == [space |-> "none", region |-> "uninit", off |-> Small(0)]

\* ------------------------------------------------------ messages
DISK_OK == "DISK_OK"
MsgTypes == {"DISK_READ", "DISK_WRITE", "DISK_FLUSH_CACHE", "DISK_GET_PARAMS"}

D(o, c) == [byteoffset |-> o, bytecount |-> c]
Rep(n, d) == [i \in 1..n |-> d]

\* Scatter/gather lists with the physsize they are submitted with.
DmaCases ==
  { [dma |-> <<D(Small(0), Small(4096))>>,                physsize |-> W(0, 1048576)],
    [dma |-> <<D(Small(0), Small(2048)), D(Small(2048), Small(2048))>>,
                                                           physsize |-> W(0, 1048576)],
    [dma |-> <<D(Small(0), Small(513))>>,                  physsize |-> W(0, 1048576)],
    [dma |-> <<D(Small(0), Small(512)), D(Small(0), Small(511)), D(Small(0), Small(1))>>,
                                                           physsize |-> W(0, 1048576)],
    [dma |-> <<D(Small(0), Small(512)), D(W(0, 1048576), Small(512))>>,
                                                           physsize |-> W(0, 1048576)],
    [dma |-> <<D(W(0, 1049088), Small(512))>>,             physsize |-> W(0, 1048576)],
    [dma |-> <<D(Small(0), W(1, 0))>>,                     physsize |-> W(2, 0)],
    [dma |-> <<D(Small(0), Small(0)), D(Small(0), Small(512))>>,
                                                           physsize |-> W(0, 1048576)],
    [dma |-> Rep(MAX_PRD_COUNT, D(Small(0), Small(512))),  physsize |-> W(0, 1048576)],
    [dma |-> Rep(MAX_PRD_COUNT + 1, D(Small(0), Small(512))),
                                                           physsize |-> W(0, 1048576)],
    [dma |-> <<D(W(HiSize - 1, LoSize - 512), Small(1024))>>,
                                                           physsize |-> W(HiSize - 1, LoSize - 1)] }

Sectors == {42}
\* physoffset of the guest memory the descriptors are relative to
GuestBase == W(16, 0)

\* ------------------------------------------------------ state
VARIABLES
  max_slots,   \* _max_slots: ((cap >> 8) & 0x1f) + 1
  disknr,      \* _disknr
  dmar,        \* _dmar
  tag,         \* _tag, the slot cursor
  inprogress,  \* _inprogress, set of slot bits
  usertags,    \* _usertags[32]
  cl,          \* _cl: the Command List, one header per slot
  ct,          \* _ct: the Command Tables, a Command FIS and a PRD table per slot
  lba48,       \* _params._lba48
  regs,        \* *_regs: the port registers
  bus_commit,  \* the MessageDiskCommit messages sent on _bus_commit, in order
  mmio,        \* register writes made by the handler that ran last
  phase,       \* "new": constructed; "up": create_ahci_port has run
  registered,  \* the port was added to bus_disk
  dev_lba48,   \* what the drive's IDENTIFY data says about LBA48
  owner,       \* per slot: caller tag of the consumer request placed in it last
  last,        \* the call that ran last, with its arguments and result
  shapes,      \* the scatter/gather lists the consumer of this run uses
  maxreq,      \* the number of messages the consumer of this run sends
  nsub,        \* messages received so far
  nerr,        \* device errors raised so far
  hist,        \* facts about the run so far
  sub,         \* the submitter context: where it is inside receive/start_command
  hba          \* HostAhci: its registers, _ports[] and the disk bus

vars == <<max_slots, disknr, dmar, tag, inprogress, usertags, cl, ct, lba48, regs,
          bus_commit, mmio, phase, registered, dev_lba48, owner, last, shapes, maxreq,
          nsub, nerr, hist, sub, hba>>

Slots == 0 .. (MaxSlots - 1)
AllBits == 0 .. 31

\* Content of memory and members the constructor leaves uninitialised.
GarbageWord == 57005
GarbageMasks == { {}, {0, 31} }
UninitHeader == [dw0 |-> 255 * 65536 + GarbageWord, dw1 |-> GarbageWord,
                 ctba |-> GarbagePtr, ctbau |-> GarbageWord]
UninitFis == [fis_type |-> GarbageWord, pm |-> GarbageWord, command |-> GarbageWord,
              features |-> GarbageWord, lba |-> GarbageWord, device |-> GarbageWord,
              features_exp |-> GarbageWord, count |-> GarbageWord]
UninitPrd == [dba |-> GarbagePtr, dbau |-> GarbageWord, dbc |-> Small(GarbageWord)]
UninitTable == [cfis |-> UninitFis, prd |-> [i \in 0 .. (MAX_PRD_COUNT - 1) |-> UninitPrd]]

\* No consumer request in the slot; the driver's own command in the slot.
NoOwner == 0 - 2
DriverOwner == 0 - 3

\* The driver's state as one value, threaded through the handlers.
Cur == [tag |-> tag, inprogress |-> inprogress, usertags |-> usertags, cl |-> cl,
        ct |-> ct, lba48 |-> lba48, regs |-> regs, commits |-> bus_commit,
        mmio |-> <<>>, owner |-> owner, disknr |-> disknr]

Becomes(s) ==
  /\ tag' = s.tag
  /\ inprogress' = s.inprogress
  /\ usertags' = s.usertags
  /\ cl' = s.cl
  /\ ct' = s.ct
  /\ lba48' = s.lba48
  /\ regs' = s.regs
  /\ bus_commit' = s.commits
  /\ mmio' = s.mmio
  /\ owner' = s.owner

\* A store to a port register, as the device sees it.
Wr(s, r, o, b) == [s EXCEPT !.mmio = Append(@, [reg |-> r, op |-> o, bit |-> b])]

\* ------------------------------------------------------ HostAhciPort
\* addr2phys: the bus address of ptr; the host translates unless the device
\* sits behind an IOMMU.  dst[0] = value, dst[1] = 0.
addr2phys(ptr) == IF dmar THEN ptr ELSE [ptr EXCEPT !.space = "phys"]

CtEntry(t) == Ptr("ct", Small(t * (128 + MAX_PRD_COUNT * 16)))

set_command(s, command, sector, read, count, atapi, pmp, features) ==
  LET dw0 == (IF atapi THEN 32 ELSE 0) + (IF read THEN 0 ELSE 64) + 5
             + ((pmp % 16) * 4096)
      cfis == [fis_type |-> 39, pm |-> 128 + (pmp % 16), command |-> command,
               features |-> features % 256, lba |-> sector, device |-> 64,
               features_exp |-> (features \div 256) % 256, count |-> count % 65536]
  IN  [s EXCEPT !.cl[s.tag] = [dw0 |-> dw0, dw1 |-> 0,
                               ctba |-> addr2phys(CtEntry(s.tag)), ctbau |-> 0],
                !.ct[s.tag].cfis = cfis]

PrdCount(hdr) == hdr.dw0 \div 65536

\* add_dma without the test of the PRD count against MAX_PRD_COUNT.
add_dma_nolimit(s, ptr, count) ==
  IF count.lo % 2 = 1 \/ count.hi # 0
  THEN [s |-> s, fail |-> TRUE]
  ELSE LET prd == PrdCount(s.cl[s.tag])
       IN  [s |-> [s EXCEPT !.cl[s.tag].dw0 = @ + 65536,
                            !.ct[s.tag].prd =
                               IF prd < MAX_PRD_COUNT
                               THEN [@ EXCEPT ![prd] = [dba |-> addr2phys(ptr), dbau |-> 0,
                                                        dbc |-> Dec32(count)]]
                               ELSE @],
            fail |-> FALSE]

add_dma(s, ptr, count) ==
  IF count.lo % 2 = 1 \/ count.hi # 0
  THEN [s |-> s, fail |-> TRUE]
  ELSE LET prd == PrdCount(s.cl[s.tag])
       IN  IF prd >= MAX_PRD_COUNT
           THEN [s |-> s, fail |-> TRUE]
           ELSE [s |-> [s EXCEPT !.cl[s.tag].dw0 = @ + 65536,
                                 !.ct[s.tag].prd[prd] =
                                    [dba |-> addr2phys(ptr), dbau |-> 0,
                                     dbc |-> Dec32(count)]],
                 fail |-> FALSE]

\* The asserts on count hold for the one caller, identify_drive (512).
add_prd(s, buffer, count) ==
  LET prd == PrdCount(s.cl[s.tag])
  IN  IF prd >= MAX_PRD_COUNT
      THEN [s |-> s, fail |-> TRUE]
      ELSE [s |-> [s EXCEPT !.cl[s.tag].dw0 = @ + 65536,
                            !.ct[s.tag].prd[prd] =
                               [dba |-> addr2phys(buffer), dbau |-> 0,
                                dbc |-> Dec32(count)]],
            fail |-> FALSE]

\* start_command that moves the cursor two slots on.
start_command_skip(s, usertag, who) ==
  LET s1 == [s EXCEPT !.inprogress = @ \cup {s.tag},
                      !.usertags[s.tag] = usertag,
                      !.owner[s.tag] = who]
      s2 == Wr([s1 EXCEPT !.regs.ci = @ \cup {s.tag}], "ci", "set", s.tag)
  IN  [s |-> [s2 EXCEPT !.tag = (s.tag + 2) % max_slots], res |-> s.tag]

\* start_command that leaves the cursor where it is.
start_command_stuck(s, usertag, who) ==
  LET s1 == [s EXCEPT !.inprogress = @ \cup {s.tag},
                      !.usertags[s.tag] = usertag,
                      !.owner[s.tag] = who]
      s2 == Wr([s1 EXCEPT !.regs.ci = @ \cup {s.tag}], "ci", "set", s.tag)
  IN  [s |-> s2, res |-> s.tag]

\* CI is write-1-to-set: the store of 1 << _tag raises that bit.
start_command(s, usertag, who) ==
  LET s1 == [s EXCEPT !.inprogress = @ \cup {s.tag},
                      !.usertags[s.tag] = usertag,
                      !.owner[s.tag] = who]
      s2 == Wr([s1 EXCEPT !.regs.ci = @ \cup {s.tag}], "ci", "set", s.tag)
  IN  [s |-> [s2 EXCEPT !.tag = (s.tag + 1) % max_slots], res |-> s.tag]

\* wait_timeout on one bit of a register that the device clears: either the
\* device clears it in time (ok) or the bit is still set when the time is up.
wait_timeout(s, reg, bit, ok) ==
  IF ok THEN [s |-> [s EXCEPT !.regs[reg] = @ \ {bit}], timeout |-> FALSE]
  ELSE [s |-> [s EXCEPT !.regs[reg] = @ \cup {bit}], timeout |-> TRUE]

WaitSites == {"cr1", "fr", "cr2", "clo", "ci"}
AllWaitsOk == [x \in WaitSites |-> TRUE]
\* init returns at the first wait that times out: an outcome is the wait that
\* times out, if any.
WaitOutcomes == {AllWaitsOk} \cup { [AllWaitsOk EXCEPT ![x] = FALSE] : x \in WaitSites }

IdentifyBuffer == Ptr("identify", Small(0))

\* update_params(buffer, false) of HostGenericAta: takes LBA48 from the data.
update_params(s) == [s |-> [s EXCEPT !.lba48 = dev_lba48], ret |-> 0]

\* identify_drive asking for 256 bytes, the length of the buffer in words.
identify_drive_count256(s, w) ==
  LET s1 == set_command(s, 236, 0, TRUE, 0, FALSE, 0, 0)
      s2 == add_prd(s1, IdentifyBuffer, Small(256)).s
      st == start_command(s2, 0, DriverOwner)
      wt == wait_timeout(st.s, "ci", st.res, w["ci"])
  IN  IF wt.timeout THEN [s |-> wt.s, ret |-> 1]
      ELSE update_params([wt.s EXCEPT !.inprogress = @ \ {st.res}])

identify_drive(s, w) ==
  LET s1 == set_command(s, 236, 0, TRUE, 0, FALSE, 0, 0)
      s2 == add_prd(s1, IdentifyBuffer, Small(512)).s
      st == start_command(s2, 0, DriverOwner)
      wt == wait_timeout(st.s, "ci", st.res, w["ci"])
  IN  IF wt.timeout THEN [s |-> wt.s, ret |-> 1]
      ELSE update_params([wt.s EXCEPT !.inprogress = @ \ {st.res}])

IE_BITS == {0, 4, 5, 6, 7, 23, 24, 27, 28, 29, 30, 31}     \* 0xf98000f1

\* init_start that goes on after the wait for CMD.CR timed out.
init_start_noabort(s, w) ==
  LET a1 == Wr([s EXCEPT !.regs.clb = addr2phys(Ptr("cl", Small(0)))], "clb", "store", 0)
      a2 == Wr([a1 EXCEPT !.regs.fb = addr2phys(Ptr("fis", Small(0)))], "fb", "store", 0)
      a3 == Wr([a2 EXCEPT !.regs.serr = {}], "serr", "clear", 32)
      a4 == Wr([a3 EXCEPT !.regs.is = {}], "is", "clear", 32)
      a5 == Wr([a4 EXCEPT !.regs.cmd = @ \cup {4}], "cmd", "set", 4)
      w5 == wait_timeout(a5, "cmd", 15, w["cr2"])
      a6 == Wr([w5.s EXCEPT !.regs.cmd = @ \cup {3}], "cmd", "set", 3)
      w6 == wait_timeout(a6, "cmd", 3, w["clo"])
      a7 == Wr([w6.s EXCEPT !.regs.cmd = @ \cup {0}], "cmd", "set", 0)
      a8 == [a7 EXCEPT !.inprogress = {}]
      a9 == Wr([a8 EXCEPT !.regs.ie = IE_BITS], "ie", "store", 0)
  IN  IF w6.timeout THEN [s |-> w6.s, ret |-> 1]
      ELSE identify_drive(a9, w)

\* init from "set CL and FIS pointer" on
init_start(s, w) ==
  LET a1 == Wr([s EXCEPT !.regs.clb = addr2phys(Ptr("cl", Small(0)))], "clb", "store", 0)
      a2 == Wr([a1 EXCEPT !.regs.fb = addr2phys(Ptr("fis", Small(0)))], "fb", "store", 0)
      a3 == Wr([a2 EXCEPT !.regs.serr = {}], "serr", "clear", 32)
      a4 == Wr([a3 EXCEPT !.regs.is = {}], "is", "clear", 32)
      a5 == Wr([a4 EXCEPT !.regs.cmd = @ \cup {4}], "cmd", "set", 4)
      w5 == wait_timeout(a5, "cmd", 15, w["cr2"])
      a6 == Wr([w5.s EXCEPT !.regs.cmd = @ \cup {3}], "cmd", "set", 3)
      w6 == wait_timeout(a6, "cmd", 3, w["clo"])
      a7 == Wr([w6.s EXCEPT !.regs.cmd = @ \cup {0}], "cmd", "set", 0)
      a8 == [a7 EXCEPT !.inprogress = {}]
      a9 == Wr([a8 EXCEPT !.regs.ie = IE_BITS], "ie", "store", 0)
  IN  IF w5.timeout THEN [s |-> w5.s, ret |-> 1]
      ELSE IF w6.timeout THEN [s |-> w6.s, ret |-> 1]
      ELSE identify_drive(a9, w)

init(s, w) ==
  IF s.regs.cmd \cap {0, 3, 14, 15} # {}
  THEN LET b1 == Wr([s EXCEPT !.regs.cmd = @ \ {0}], "cmd", "clear", 0)
           w1 == wait_timeout(b1, "cmd", 15, w["cr1"])
           b2 == Wr([w1.s EXCEPT !.regs.cmd = @ \ {4}], "cmd", "clear", 4)
           w2 == wait_timeout(b2, "cmd", 14, w["fr"])
       IN  IF w1.timeout THEN [s |-> w1.s, ret |-> 1]
           ELSE IF w2.timeout THEN [s |-> w2.s, ret |-> 1]
           ELSE init_start(w2.s, w)
  ELSE init_start(s, w)

Lowest(S) == CHOOSE x \in S : \A y \in S : x <= y

\* One MessageDiskCommit on the bus.  "for" is not part of the message: it
\* names the consumer request the reported slot was carrying.
Commit(s, t) == [disknr |-> s.disknr, usertag |-> s.usertags[t], status |-> DISK_OK,
                 for |-> s.owner[t]]

\* The completion loop of irq(), lowest bit first.
RECURSIVE irq_loop(_, _)
irq_loop(s, done) ==
  IF done = {} THEN s
  ELSE LET t == Lowest(done)
       IN  irq_loop([s EXCEPT !.commits = Append(@, Commit(s, t)),
                              !.usertags[t] = TAG_INVALID,
                              !.inprogress = @ \ {t}],
                    done \ {t})

\* done computed without masking out the bits still set in CI.
irq_done_nomask(s) == s.inprogress

\* done = _inprogress & ~_regs->ci
irq_done(s) == s.inprogress \ s.regs.ci

irq_drain(s) ==
  LET s1 == Wr([s EXCEPT !.regs.is = {}], "is", "ack", 32)
  IN  irq_loop(s1, irq_done(s1))

irq(s, w) ==
  LET s2 == irq_drain(s)
  IN  IF s2.regs.tfd THEN init(s2, w).s ELSE s2

\* The byte counts of descriptors i..j added up modulo 2^32 (the range is
\* halved to keep the evaluation shallow).
RECURSIVE sum_range(_, _, _)
sum_range(dma, i, j) ==
  IF i > j THEN Small(0)
  ELSE IF i = j THEN dma[i].bytecount
  ELSE LET m == (i + j) \div 2
       IN  Add32(sum_range(dma, i, m), sum_range(dma, m + 1, j))

\* DmaDescriptor::sum_length
sum_length(dmacount, dma) == sum_range(dma, 1, dmacount)

\* One pass of the descriptor loop of receive, for descriptor i.
dma_step(s, msg, i) ==
  LET d == msg.dma[i]
  IN  IF Gt32(d.byteoffset, msg.physsize)
         \/ Gt32(Add32(d.byteoffset, d.bytecount), msg.physsize)
      THEN [s |-> s, fail |-> TRUE]
      ELSE add_dma(s, Ptr("guest", Add32(GuestBase, d.byteoffset)), d.bytecount)

\* The descriptor loop of receive over descriptors i..j, left to right, stopping
\* at the first failure (the range is halved to keep the evaluation shallow).
RECURSIVE dma_loop(_, _, _, _)
dma_loop(s, msg, i, j) ==
  IF i > j THEN [s |-> s, fail |-> FALSE]
  ELSE IF i = j THEN dma_step(s, msg, i)
  ELSE LET m == (i + j) \div 2
           r == dma_loop(s, msg, i, m)
       IN  IF r.fail THEN r ELSE dma_loop(r.s, msg, m + 1, j)

\* The READ opcodes chosen the wrong way round.
ReadCommand_swapped(s) == IF s.lba48 THEN 200 ELSE 37

ReadCommand(s) == IF s.lba48 THEN 37 ELSE 200       \* 0x25, 0xc8
WriteCommand(s) == IF s.lba48 THEN 53 ELSE 202      \* 0x35, 0xca
FlushCommand(s) == IF s.lba48 THEN 234 ELSE 231     \* 0xea, 0xe7

\* The alignment test with the mask 0x1fe in place of 0x1ff.
LengthAligned_mask1fe(length) == (length.lo \div 2) % 256 = 0

\* !(length & 0x1ff)
LengthAligned(length) == length.lo % 512 = 0

\* receive up to its call of start_command: the command built in the slot
\* under the cursor, whether start_command is reached and the tag it is given.
receive_build(s, msg) ==
  IF msg.disknr # s.disknr
  THEN [s |-> s, ret |-> FALSE, start |-> FALSE, usertag |-> 0]
  ELSE IF msg.type \in {"DISK_READ", "DISK_WRITE"}
  THEN LET length == sum_length(Len(msg.dma), msg.dma)
           command == IF msg.type = "DISK_WRITE" THEN WriteCommand(s) ELSE ReadCommand(s)
           s1 == set_command(s, command, msg.sector, msg.type # "DISK_WRITE",
                             length.hi * 8192 + (length.lo \div 512), FALSE, 0, 0)
           r == dma_loop(s1, msg, 1, Len(msg.dma))
       IN  IF ~LengthAligned(length)
           THEN [s |-> s, ret |-> FALSE, start |-> FALSE, usertag |-> 0]
           ELSE IF r.fail THEN [s |-> r.s, ret |-> FALSE, start |-> FALSE, usertag |-> 0]
           ELSE [s |-> r.s, ret |-> TRUE, start |-> TRUE, usertag |-> msg.usertag]
  ELSE IF msg.type = "DISK_FLUSH_CACHE"
  THEN [s |-> set_command(s, FlushCommand(s), 0, TRUE, 0, FALSE, 0, 0),
        ret |-> TRUE, start |-> TRUE, usertag |-> 0]
  ELSE \* DISK_GET_PARAMS: fills msg.params only
       [s |-> s, ret |-> TRUE, start |-> FALSE, usertag |-> 0]

receive(s, msg) ==
  LET b == receive_build(s, msg)
  IN  IF b.start
      THEN [s |-> start_command(b.s, b.usertag, msg.usertag).s, ret |-> TRUE]
      ELSE [s |-> b.s, ret |-> b.ret]

\* ------------------------------------------------------ the system
NoMsg == [disknr |-> -1, type |-> "none", sector |-> 0, dma |-> <<>>,
          physsize |-> Small(0), usertag |-> NoOwner]

Idle(o) == [op |-> o, msg |-> NoMsg, ret |-> FALSE, slot |-> 0, err |-> FALSE,
            loop_ci |-> {}, loop_ip |-> {}, pre_ip |-> {}, pre_ci |-> {},
            w |-> AllWaitsOk]

\* The messages the consumer sends as its next one: tags are fresh and non-zero.
Messages ==
  LET t == nsub + 1
  IN  { [disknr |-> disknr, type |-> ty, sector |-> sec, dma |-> c.dma,
         physsize |-> c.physsize, usertag |-> t] :
          ty \in {"DISK_READ", "DISK_WRITE"}, sec \in Sectors, c \in shapes }
      \cup { [disknr |-> disknr, type |-> ty, sector |-> 0, dma |-> <<>>,
              physsize |-> Small(0), usertag |-> t] :
               ty \in {"DISK_FLUSH_CACHE", "DISK_GET_PARAMS"} }
      \cup { [disknr |-> disknr + 1, type |-> "DISK_READ", sector |-> 42,
              dma |-> <<D(Small(0), Small(4096))>>, physsize |-> W(0, 1048576),
              usertag |-> t] }

InitCmd == { {}, {0, 4, 14, 15} }

\* The submitter is not inside receive.
SubIdle == [pc |-> "idle", msg |-> NoMsg, ip |-> {}, usertag |-> 0]

\* No HostAhci in the run: the port stands alone.
NoHba == [phase |-> "none"]

\* The state the constructor leaves: _tag(0) and the allocations, nothing else.
Constructed(sh, n) ==
  /\ shapes = sh
  /\ maxreq = n
  /\ max_slots \in 1 .. MaxSlots
  /\ disknr = 0
  /\ dmar \in BOOLEAN
  /\ dev_lba48 \in BOOLEAN
  /\ tag = 0
  /\ inprogress \in GarbageMasks
  /\ usertags = [i \in AllBits |-> GarbageWord]
  /\ cl = [i \in 0 .. (max_slots - 1) |-> UninitHeader]
  /\ ct = [i \in 0 .. (max_slots - 1) |-> UninitTable]
  /\ lba48 = FALSE
  /\ regs \in { [clb |-> GarbagePtr, fb |-> GarbagePtr, is |-> {}, ie |-> {}, cmd |-> c,
                 tfd |-> FALSE, serr |-> {}, ci |-> {}] : c \in InitCmd }
  /\ bus_commit = <<>>
  /\ mmio = <<>>
  /\ phase = "new"
  /\ registered = FALSE
  /\ owner = [i \in AllBits |-> NoOwner]
  /\ last = Idle("none")
  /\ nsub = 0
  /\ nerr = 0
  /\ hist = [submitted |-> {}, overrun |-> FALSE, err_seen |-> FALSE, flush |-> FALSE,
             abandoned |-> {}, late |-> FALSE]
  /\ sub = SubIdle

\* The consumer of Spec sends a few well-formed and one unaligned request.
LifeCases ==
  { [dma |-> <<D(Small(0), Small(4096))>>, physsize |-> W(0, 1048576)],
    [dma |-> <<D(Small(0), Small(513))>>,  physsize |-> W(0, 1048576)] }

Init == Constructed(LifeCases, MaxReq) /\ hba = NoHba

\* The consumer of SpecDma sends every scatter/gather list of DmaCases.
InitDma == Constructed(DmaCases, MaxDmaReq) /\ hba = NoHba

Config == UNCHANGED <<max_slots, disknr, dmar, dev_lba48, shapes, maxreq>>

\* The handlers of one port run to completion and leave HostAhci alone.
PortOnly == UNCHANGED <<sub, hba>>

\* Caller tags of consumer requests accepted and not yet answered by a commit.
Outstanding == hist.submitted \ { bus_commit[i].usertag : i \in 1 .. Len(bus_commit) }

\* create_ahci_port: init the port and add it to bus_disk if init succeeded.
Bringup ==
  /\ phase = "new"
  /\ \E w \in WaitOutcomes :
       LET r == init(Cur, w)
       IN  /\ Becomes(r.s)
           /\ registered' = (r.ret = 0)
           /\ last' = [Idle("bringup") EXCEPT !.ret = (r.ret = 0), !.w = w]
  /\ phase' = "up"
  /\ Config
  /\ PortOnly
  /\ UNCHANGED <<nsub, nerr, hist>>

\* HostAhciPort::receive for a message on bus_disk.
Receive ==
  /\ phase = "up"
  /\ registered
  /\ nsub < maxreq
  /\ \E msg \in Messages :
       LET r == receive(Cur, msg)
           started == r.ret /\ msg.type # "DISK_GET_PARAMS"
       IN  /\ Becomes(r.s)
           /\ last' = [Idle("receive") EXCEPT !.msg = msg, !.ret = r.ret, !.slot = tag,
                                              !.pre_ip = inprogress, !.pre_ci = regs.ci]
           /\ hist' = [hist EXCEPT
                         !.submitted = IF started THEN @ \cup {msg.usertag} ELSE @,
                         !.overrun = @ \/ (started /\ Cardinality(Outstanding) >= max_slots),
                         !.flush = @ \/ msg.type = "DISK_FLUSH_CACHE"]
  /\ nsub' = nsub + 1
  /\ Config
  /\ PortOnly
  /\ UNCHANGED <<phase, registered, nerr>>

\* HostAhciPort::irq, called by HostAhci::receive(MessageIrq).
Irq ==
  /\ phase = "up"
  /\ regs.tfd => nerr < MaxErr
  /\ \E w \in (IF regs.tfd THEN WaitOutcomes ELSE {AllWaitsOk}) :
       LET d == irq_drain(Cur)
           r == irq(Cur, w)
           lost == { owner[t] : t \in regs.ci } \ {NoOwner, DriverOwner}
           fresh == { d.commits[i].for : i \in (Len(bus_commit) + 1) .. Len(d.commits) }
       IN  /\ Becomes(r)
           /\ last' = [Idle("irq") EXCEPT !.err = regs.tfd, !.loop_ci = regs.ci, !.w = w,
                                          !.loop_ip = d.inprogress,
                                          !.pre_ip = inprogress, !.pre_ci = regs.ci]
           /\ hist' = [hist EXCEPT
                         !.err_seen = @ \/ regs.tfd,
                         !.late = @ \/ (fresh \cap hist.abandoned # {}),
                         !.abandoned = IF regs.tfd THEN @ \cup lost ELSE @]
  /\ nerr' = IF regs.tfd THEN nerr + 1 ELSE nerr
  /\ Config
  /\ PortOnly
  /\ UNCHANGED <<phase, registered, nsub>>

\* The device finishes the command in slot t: it clears the CI bit.
DeviceComplete ==
  /\ \E t \in regs.ci : regs' = [regs EXCEPT !.ci = @ \ {t}, !.is = @ \cup {0}]
  /\ last' = Idle("device")
  /\ Config
  /\ PortOnly
  /\ UNCHANGED <<tag, inprogress, usertags, cl, ct, lba48, bus_commit, mmio, phase,
                 registered, owner, nsub, nerr, hist>>

\* The device reports an error in the task file.
DeviceError ==
  /\ phase = "up"
  /\ nerr < MaxErr
  /\ ~regs.tfd
  /\ regs' = [regs EXCEPT !.tfd = TRUE, !.is = @ \cup {30}]
  /\ last' = Idle("device")
  /\ Config
  /\ PortOnly
  /\ UNCHANGED <<tag, inprogress, usertags, cl, ct, lba48, bus_commit, mmio, phase,
                 registered, owner, nsub, nerr, hist>>

\* The device updates the task file with a good status again.
DeviceRecover ==
  /\ regs.tfd
  /\ regs' = [regs EXCEPT !.tfd = FALSE]
  /\ last' = Idle("device")
  /\ Config
  /\ PortOnly
  /\ UNCHANGED <<tag, inprogress, usertags, cl, ct, lba48, bus_commit, mmio, phase,
                 registered, owner, nsub, nerr, hist>>

Next == Bringup \/ Receive \/ Irq \/ DeviceComplete \/ DeviceError \/ DeviceRecover

Spec == Init /\ [][Next]_vars

SpecDma == InitDma /\ [][Next]_vars

\* ------------------------------------- submitter and interrupt interleaved
\* Nothing in HostAhciPort keeps irq() from running while the submitter is
\* inside start_command: the statements of start_command are steps of their
\* own here, and irq() may run between any two of them.
ConcCases == { [dma |-> <<D(Small(0), Small(4096))>>, physsize |-> W(0, 1048576)] }

InitConc == Constructed(ConcCases, MaxConcReq) /\ hba = NoHba

\* The submitter calls receive: it runs up to start_command, or to its end
\* when start_command is not reached.
ConcReceive ==
  /\ phase = "up"
  /\ registered
  /\ sub.pc = "idle"
  /\ nsub < maxreq
  /\ \E msg \in Messages :
       LET b == receive_build(Cur, msg)
       IN  /\ Becomes(b.s)
           /\ sub' = IF b.start
                     THEN [pc |-> "load", msg |-> msg, ip |-> {}, usertag |-> b.usertag]
                     ELSE SubIdle
           /\ last' = [Idle("receive") EXCEPT !.msg = msg, !.ret = b.ret, !.slot = tag,
                                              !.pre_ip = inprogress, !.pre_ci = regs.ci]
           /\ hist' = [hist EXCEPT !.flush = @ \/ msg.type = "DISK_FLUSH_CACHE"]
  /\ nsub' = nsub + 1
  /\ Config
  /\ UNCHANGED <<phase, registered, nerr, hba>>

\* _inprogress |= 1 << _tag: the load of _inprogress.
ConcLoad ==
  /\ sub.pc = "load"
  /\ sub' = [sub EXCEPT !.pc = "store", !.ip = inprogress]
  /\ last' = Idle("start_command")
  /\ Config
  /\ UNCHANGED <<tag, inprogress, usertags, cl, ct, lba48, regs, bus_commit, mmio, phase,
                 registered, owner, nsub, nerr, hist, hba>>

\* _inprogress |= 1 << _tag: the store; _usertags[_tag] = usertag.
ConcStore ==
  /\ sub.pc = "store"
  /\ inprogress' = sub.ip \cup {tag}
  /\ usertags' = [usertags EXCEPT ![tag] = sub.usertag]
  /\ owner' = [owner EXCEPT ![tag] = sub.msg.usertag]
  /\ sub' = [sub EXCEPT !.pc = "issue"]
  /\ last' = Idle("start_command")
  /\ Config
  /\ UNCHANGED <<tag, cl, ct, lba48, regs, bus_commit, mmio, phase,
                 registered, nsub, nerr, hist, hba>>

\* _regs->ci = 1 << _tag; _tag = (_tag + 1) % _max_slots.
ConcIssue ==
  /\ sub.pc = "issue"
  /\ regs' = [regs EXCEPT !.ci = @ \cup {tag}]
  /\ mmio' = << [reg |-> "ci", op |-> "set", bit |-> tag] >>
  /\ tag' = (tag + 1) % max_slots
  /\ hist' = [hist EXCEPT !.submitted = @ \cup {sub.msg.usertag}]
  /\ sub' = SubIdle
  /\ last' = [Idle("start_command") EXCEPT !.msg = sub.msg, !.ret = TRUE, !.slot = tag]
  /\ Config
  /\ UNCHANGED <<inprogress, usertags, cl, ct, lba48, bus_commit, phase,
                 registered, owner, nsub, nerr, hba>>

NextConc ==
  Bringup \/ ConcReceive \/ ConcLoad \/ ConcStore \/ ConcIssue \/ Irq \/ DeviceComplete

SpecConc == InitConc /\ [][NextConc]_vars

\* ------------------------------------------------------ HostAhci
\* The controller with its ports: hba.pi is PI, hba.sig_bad the implemented
\* ports whose SIG reads 0xffffffff, hba.is the global IS, hba.port the HostAhciPort objects in
\* _ports[], hba.bus the entries of bus_disk, hba.log the register accesses and
\* irq() calls of the last receive(MessageIrq).
HbaPorts == 0 .. (NPorts - 1)

\* DBus::count and DBus::add: the number of entries, and one more entry.
bus_count(bus) == Len(bus)
bus_add(bus, port, nr) == Append(bus, [port |-> port, nr |-> nr])

\* An entry another driver added to bus_disk before this controller came up.
OtherDisk == [port |-> 0 - 1, nr |-> 0]

\* new HostAhciPort(portreg, ..., disknr, max_slots, dmar)
PortNew(nr, g, c) ==
  [tag |-> 0, inprogress |-> g, usertags |-> [i \in AllBits |-> GarbageWord],
   cl |-> [i \in 0 .. (max_slots - 1) |-> UninitHeader],
   ct |-> [i \in 0 .. (max_slots - 1) |-> UninitTable],
   lba48 |-> FALSE,
   regs |-> [clb |-> GarbagePtr, fb |-> GarbagePtr, is |-> {}, ie |-> {}, cmd |-> c,
             tfd |-> FALSE, serr |-> {}, ci |-> {}],
   commits |-> <<>>, mmio |-> <<>>, owner |-> [i \in AllBits |-> NoOwner],
   disknr |-> nr]

\* create_ahci_port that adds the port to bus_disk whatever init returned.
create_ahci_port_always(h, nr, g, c, w) ==
  IF nr \in h.pi /\ nr \notin h.sig_bad
  THEN LET r == init(PortNew(bus_count(h.bus), g, c), w)
       IN  [h EXCEPT !.port = (nr :> r.s) @@ @,
                     !.initok = IF r.ret = 0 THEN @ \cup {nr} ELSE @,
                     !.bus = bus_add(@, nr, bus_count(@))]
  ELSE h

create_ahci_port(h, nr, g, c, w) ==
  IF nr \in h.pi /\ nr \notin h.sig_bad
  THEN LET r == init(PortNew(bus_count(h.bus), g, c), w)
       IN  [h EXCEPT !.port = (nr :> r.s) @@ @,
                     !.initok = IF r.ret = 0 THEN @ \cup {nr} ELSE @,
                     !.bus = IF r.ret = 0 THEN bus_add(@, nr, bus_count(@)) ELSE @]
  ELSE h

HbaLog(o, p, v) == [op |-> o, port |-> p, val |-> v]

\* The loop of receive(MessageIrq) over the bits of is, lowest first.
RECURSIVE hba_dispatch(_, _)
hba_dispatch(h, is) ==
  IF is = {} THEN h
  ELSE LET port == Lowest(is)
       IN  hba_dispatch(IF port \in DOMAIN h.port
                        THEN [h EXCEPT !.port[port] = irq(@, AllWaitsOk),
                                       !.log = Append(@, HbaLog("irq", port, {}))]
                        ELSE h,
                        is \ {port})

\* receive(MessageIrq) that writes back what is left of is after the loop.
hba_receive_ackrest(h, msg) ==
  IF msg.line # "hostirq" \/ msg.type # "ASSERT_IRQ"
  THEN [h EXCEPT !.ret = FALSE, !.log = << >>]
  ELSE LET oldis == h.is
           d == hba_dispatch([h EXCEPT !.log = << HbaLog("read_is", 0 - 1, oldis) >>], oldis)
       IN  [d EXCEPT !.log = Append(@, HbaLog("write_is", 0 - 1, {})), !.ret = TRUE]

\* HostAhci::receive(MessageIrq); IS is write-1-to-clear.
hba_receive(h, msg) ==
  IF msg.line # "hostirq" \/ msg.type # "ASSERT_IRQ"
  THEN [h EXCEPT !.ret = FALSE, !.log = << >>]
  ELSE LET oldis == h.is
           d == hba_dispatch([h EXCEPT !.log = << HbaLog("read_is", 0 - 1, oldis) >>], oldis)
       IN  [d EXCEPT !.is = @ \ oldis,
                     !.log = Append(@, HbaLog("write_is", 0 - 1, oldis)), !.ret = TRUE]

IrqMessages == { [line |-> l, type |-> ty] :
                   l \in {"hostirq", "other"}, ty \in {"ASSERT_IRQ", "DEASSERT_IRQ"} }

\* The constructor of HostAhci before its loop over the ports.
InitHba ==
  /\ Constructed({}, 0)
  /\ inprogress = {} /\ ~dmar /\ dev_lba48 /\ regs.cmd = {}
  /\ hba \in UNION {
       { [phase |-> "ctor", next |-> 0, pi |-> p, sig_bad |-> b, is |-> {},
          ghc |-> {31}, port |-> << >>, initok |-> {}, bus |-> d,
          log |-> << >>, ret |-> FALSE, op |-> "none", nirq |-> 0,
          msg |-> [line |-> "none", type |-> "none"]] :
            b \in SUBSET p, d \in { << >>, << OtherDisk >> } } :
       p \in SUBSET HbaPorts }

PortVars == <<max_slots, disknr, dmar, tag, inprogress, usertags, cl, ct, lba48, regs,
              bus_commit, mmio, phase, registered, dev_lba48, owner, last, shapes, maxreq,
              nsub, nerr, hist, sub>>

\* One pass of the constructor's loop: create_ahci_port(i, ...).
HbaCreatePort ==
  /\ hba.phase = "ctor"
  /\ hba.next < NPorts
  /\ \E g \in GarbageMasks, w \in WaitOutcomes :
       hba' = [create_ahci_port(hba, hba.next, g, {}, w) EXCEPT
                 !.next = @ + 1, !.op = "create"]
  /\ UNCHANGED PortVars

\* The end of the constructor: clear pending irqs, enable IRQs.
HbaEnable ==
  /\ hba.phase = "ctor"
  /\ hba.next = NPorts
  /\ hba' = [hba EXCEPT !.is = @ \ hba.pi, !.ghc = @ \cup {1}, !.phase = "run",
                        !.op = "enable"]
  /\ UNCHANGED PortVars

\* A port raises its bit in the global IS.
HbaDeviceIrq ==
  /\ hba.phase = "run"
  /\ hba.nirq < MaxIrq
  /\ \E p \in HbaPorts \ hba.is :
       hba' = [hba EXCEPT !.is = @ \cup {p}, !.op = "device"]
  /\ UNCHANGED PortVars

\* HostAhci::receive(MessageIrq) for a message on bus_hostirq.
HbaReceiveIrq ==
  /\ hba.phase = "run"
  /\ hba.nirq < MaxIrq
  /\ \E msg \in IrqMessages :
       hba' = [hba_receive(hba, msg) EXCEPT !.op = "receive", !.msg = msg, !.nirq = @ + 1]
  /\ UNCHANGED PortVars

NextHba == HbaCreatePort \/ HbaEnable \/ HbaDeviceIrq \/ HbaReceiveIrq

SpecHba == InitHba /\ [][NextHba]_vars

\* ------------------------------------------------------ claims
RW == {"DISK_READ", "DISK_WRITE"}
Requests == {"DISK_READ", "DISK_WRITE", "DISK_FLUSH_CACHE"}
CommitTags == { bus_commit[i].usertag : i \in 1 .. Len(bus_commit) }
IsRequest(o) == o # NoOwner /\ o # DriverOwner

\* C1: every commit irq() emits for a slot that carried a consumer request
\* (READ, WRITE or FLUSH_CACHE) bears that request's caller tag, and no
\* request is answered by two commits.
C1_CommitCarriesCallerTag ==
  /\ \A i \in 1 .. Len(bus_commit) :
       IsRequest(bus_commit[i].for) => bus_commit[i].usertag = bus_commit[i].for
  /\ \A i, j \in 1 .. Len(bus_commit) :
       (i # j /\ IsRequest(bus_commit[i].for)) => bus_commit[i].for # bus_commit[j].for

\* C2: with no TFD.ERR, a caller that never has more than max_slots requests
\* outstanding and a device that completes in any order, once nothing is in
\* flight the tags delivered in commits are the tags submitted.  (FLUSH_CACHE
\* requests are left out: their tag is replaced for the reason of C1.)
C2_DeliveredEqualsSubmitted ==
  (/\ registered
   /\ ~hist.err_seen /\ ~regs.tfd
   /\ ~hist.overrun
   /\ ~hist.flush
   /\ inprogress = {} /\ regs.ci = {})
  => CommitTags = hist.submitted

\* C3: with max_slots commands outstanding and none completed, a message to
\* receive leaves the caller tag, the Command Header and the Command Table of the
\* slot under the cursor, which is in flight, as they are.
C3_NoOverwriteInFlight ==
  [][ (/\ last'.op = "receive"
       /\ inprogress = 0 .. (max_slots - 1)
       /\ regs.ci = inprogress)
      => (/\ usertags'[tag] = usertags[tag]
          /\ cl'[tag] = cl[tag]
          /\ ct'[tag] = ct[tag]) ]_vars

\* C4: once create_ahci_port has run init, in_progress has at most max_slots
\* bits set, none at a position >= max_slots, and the cursor is < max_slots.
C4_InProgressWithinSlots ==
  phase = "up" =>
    /\ Cardinality(inprogress) <= max_slots
    /\ inprogress \subseteq 0 .. (max_slots - 1)
    /\ tag < max_slots

\* C5: between driver operations every bit set in CI is set in in_progress, and
\* at the end of irq()'s completion loop every bit left in in_progress is set in
\* the CI value irq() read.
C5_InProgressCoversCI ==
  /\ phase = "up" => regs.ci \subseteq inprogress
  /\ last.op = "irq" => last.loop_ip \subseteq last.loop_ci

\* C5 as amended: every bit set in CI is set in in_progress in every state
\* reached before irq() has re-run init on TFD.ERR, and at the end of irq()'s
\* completion loop every bit left in in_progress is set in the CI value read.
C5_CoversCIUntilReinit ==
  /\ (phase = "up" /\ ~hist.err_seen) => regs.ci \subseteq inprogress
  /\ last.op = "irq" => last.loop_ip \subseteq last.loop_ci

\* irq() reported one slot and left another, still set in CI, in progress.
C5_Witness ==
  /\ last.op = "irq" /\ ~hist.err_seen
  /\ last.pre_ip \ last.pre_ci # {}
  /\ last.loop_ip # {} /\ inprogress = last.loop_ip /\ regs.ci = inprogress

\* The byte counts of descriptors i..j added up, modulo 512.
RECURSIVE SumMod512(_, _, _)
SumMod512(dma, i, j) ==
  IF i > j THEN 0
  ELSE IF i = j THEN dma[i].bytecount.lo % 512
  ELSE LET m == (i + j) \div 2
       IN  (SumMod512(dma, i, m) + SumMod512(dma, m + 1, j)) % 512

Unaligned(msg) == SumMod512(msg.dma, 1, Len(msg.dma)) # 0

\* C6: a READ or WRITE whose lengths do not sum to a multiple of 512 makes
\* receive return false with no register written and the Command List, the
\* Command Tables, in_progress, the caller tags and the cursor unchanged.
C6_UnalignedTouchesNothing ==
  [][ (/\ last'.op = "receive"
       /\ last'.msg.type \in RW
       /\ Unaligned(last'.msg))
      => (/\ last'.ret = FALSE
          /\ mmio' = <<>>
          /\ UNCHANGED <<regs, cl, ct, inprogress, usertags, tag>>) ]_vars

C6_Witness ==
  /\ last.op = "receive" /\ last.msg.type = "DISK_READ" /\ last.msg.disknr = disknr
  /\ last.msg.dma = <<D(Small(0), Small(513))>>
  /\ last.ret = FALSE

\* A descriptor receive may hand to the device.
ValidDescriptor(d, physsize) ==
  /\ ~Gt32(d.byteoffset, physsize)
  /\ ~SumExceeds(d.byteoffset, d.bytecount, physsize)
  /\ d.bytecount.lo % 2 = 0
  /\ d.bytecount.hi = 0

ValidList(msg) ==
  /\ Len(msg.dma) <= MAX_PRD_COUNT
  /\ \A i \in 1 .. Len(msg.dma) : ValidDescriptor(msg.dma[i], msg.physsize)

CiWritten == \E i \in 1 .. Len(mmio) : mmio[i].reg = "ci"

\* C7: a READ or WRITE is issued only if its list has at most 64 descriptors,
\* each within [0, physsize) without wrap-around, even and below 2^22; otherwise
\* receive returns false and CI is not written.
C7_IssuedOnlyIfValid ==
  (last.op = "receive" /\ last.msg.type \in RW /\ last.msg.disknr = disknr)
  => (/\ last.ret => ValidList(last.msg)
      /\ ~ValidList(last.msg) => (~last.ret /\ ~CiWritten))

Built(hdr) == hdr.ctba # GarbagePtr

Probes == { Small(0), Small(512), Small(4096) }

ExpectedCommand(type, l48) ==
  CASE type = "DISK_READ" -> IF l48 THEN 37 ELSE 200
    [] type = "DISK_WRITE" -> IF l48 THEN 53 ELSE 202
    [] type = "DISK_FLUSH_CACHE" -> IF l48 THEN 234 ELSE 231

WriteFlag(hdr) == (hdr.dw0 \div 64) % 2 = 1

\* receive built a command for its message.
BuiltCommand ==
  /\ last.op = "receive" /\ last.msg.disknr = disknr
  /\ \/ last.msg.type = "DISK_FLUSH_CACHE"
     \/ last.msg.type \in RW /\ ~Unaligned(last.msg)

\* C9: the command byte receive writes into the Command FIS depends on the
\* message type and the LBA48 flag alone (0x25/0xC8, 0x35/0xCA, 0xEA/0xE7), and
\* the write flag of the Command Header is set exactly for WRITE.
C9_CommandByType ==
  BuiltCommand =>
    /\ ct[last.slot].cfis.command = ExpectedCommand(last.msg.type, dev_lba48)
    /\ WriteFlag(cl[last.slot]) <=> last.msg.type = "DISK_WRITE"

C9_Witness ==
  /\ BuiltCommand /\ last.msg.type = "DISK_WRITE" /\ last.ret
  /\ dev_lba48 /\ ct[last.slot].cfis.command = 53

\* C10: once irq() has found TFD.ERR set, the requests whose slots were still
\* set in CI are abandoned: none of their slots stays in in_progress and no
\* commit is emitted for them afterwards.
C10_AbandonedStayAbandoned ==
  /\ ~hist.late
  /\ \A t \in inprogress : owner[t] \notin hist.abandoned

\* C11: after an irq() that found TFD.ERR set, whatever the register waits of
\* the re-run init did, command processing runs again (CMD.ST is set); a READ
\* or WRITE with a valid list sent afterwards is accepted and written to CI
\* while command processing runs.
C11_ReinitRestartsPort ==
  /\ (last.op = "irq" /\ last.err) => 0 \in regs.cmd
  /\ (last.op = "receive" /\ hist.err_seen /\ last.msg.type \in RW
      /\ last.msg.disknr = disknr /\ ~Unaligned(last.msg) /\ ValidList(last.msg))
     => (last.ret /\ CiWritten /\ 0 \in regs.cmd)

\* C19: every commit on the bus answers a request a consumer submitted through
\* receive; none reports a command of the driver's own (IDENTIFY) or a slot no
\* command was placed in.
C19_CommitsOnlyForRequests ==
  \A i \in 1 .. Len(bus_commit) : IsRequest(bus_commit[i].for)

\* receive accepted and issued a READ or WRITE.
Issued == last.op = "receive" /\ last.msg.type \in RW /\ last.ret

\* C20: for every READ or WRITE receive accepts, the fourth dword of each PRD
\* entry written is the descriptor's byte count minus one modulo 2^32 and is
\* below 2^22.
C20_PrdByteCount ==
  Issued =>
    \A i \in 1 .. Len(last.msg.dma) :
      LET dbc == ct[last.slot].prd[i - 1].dbc
      IN  /\ dbc = Dec32(last.msg.dma[i].bytecount)
          /\ dbc.hi = 0

\* The bits written to CI by the handler that ran last, in order.
CiBits(mm) == [i \in 1 .. Len(SelectSeq(mm, LAMBDA x : x.reg = "ci")) |->
                 SelectSeq(mm, LAMBDA x : x.reg = "ci")[i].bit]

\* The first message after a bring-up that succeeded is a READ, and receive
\* accepted it.
FirstRead ==
  /\ last.op = "receive" /\ last.msg.type = "DISK_READ" /\ last.ret
  /\ nsub = 1 /\ ~hist.err_seen

\* receive issued its READ in slot t with the caller tag and the PRD table
\* of the message.
ReadIssuedIn(t) ==
  /\ t \in inprogress
  /\ CiBits(mmio) = <<t>>
  /\ usertags[t] = last.msg.usertag
  /\ PrdCount(cl[t]) = Len(last.msg.dma)
  /\ \A i \in 1 .. Len(last.msg.dma) :
       ct[t].prd[i - 1].dbc = Dec32(last.msg.dma[i].bytecount)

\* C13: the first READ accepted after a successful bring-up is issued in
\* command slot 0.
C13_FirstReadInSlot0 == FirstRead => ReadIssuedIn(0)

\* C13 as amended: the first READ accepted after a successful bring-up is
\* issued in the slot after the one IDENTIFY took, slot 1 mod max_slots.
C13_FirstReadAfterIdentify == FirstRead => ReadIssuedIn(1 % max_slots)

C13_Witness ==
  /\ FirstRead /\ max_slots = 2 /\ Len(last.msg.dma) = 2
  /\ 1 \in regs.ci /\ usertags[1] = last.msg.usertag

\* One step of init: a store to a register or a wait on a register bit.
Store(r, o, b) == [k |-> "store", reg |-> r, op |-> o, bit |-> b, site |-> "none"]
Await(x) == [k |-> "wait", reg |-> "none", op |-> "none", bit |-> 0, site |-> x]

\* The steps of init in the order claimed; stopping: the port was running.
InitSteps(stopping, t) ==
  (IF stopping
   THEN << Store("cmd", "clear", 0), Await("cr1"), Store("cmd", "clear", 4), Await("fr") >>
   ELSE << >>)
  \o << Store("clb", "store", 0), Store("fb", "store", 0),
        Store("serr", "clear", 32), Store("is", "clear", 32),
        Store("cmd", "set", 4), Await("cr2"),
        Store("cmd", "set", 3), Await("clo"),
        Store("cmd", "set", 0), Store("ie", "store", 0),
        Store("ci", "set", t), Await("ci") >>

\* The stores of steps i.. made when init stops at the first wait that w lets
\* time out.
RECURSIVE StoresUntilTimeout(_, _, _)
StoresUntilTimeout(steps, i, w) ==
  IF i > Len(steps) THEN << >>
  ELSE IF steps[i].k = "wait"
  THEN IF w[steps[i].site] THEN StoresUntilTimeout(steps, i + 1, w) ELSE << >>
  ELSE << [reg |-> steps[i].reg, op |-> steps[i].op, bit |-> steps[i].bit] >>
       \o StoresUntilTimeout(steps, i + 1, w)

EveryWaitOk(steps, w) ==
  \A i \in 1 .. Len(steps) : steps[i].k = "wait" => w[steps[i].site]

\* The waits of init that come before IDENTIFY all succeed.
ReachesIdentify(stopping, w) ==
  /\ stopping => (w["cr1"] /\ w["fr"])
  /\ w["cr2"] /\ w["clo"]

\* The step is a run of init: create_ahci_port, or irq() on TFD.ERR.
InitRuns == last'.op = "bringup" \/ (last'.op = "irq" /\ last'.err)

Stopping == regs.cmd \cap {0, 3, 14, 15} # {}

\* C15: a run of init makes its register stores in the order stop ST, stop
\* FRE, CLB, FB, SERR, IS, FRE, CLO, ST, IE, CI (IDENTIFY), stops at the first
\* wait that times out, resets in_progress between ST and IE, and returns zero
\* only if every wait, the one of IDENTIFY included, succeeded.
C15_InitInOrder ==
  [][ InitRuns =>
        LET steps == InitSteps(Stopping, tag)
            ack == IF last'.op = "irq" THEN << [reg |-> "is", op |-> "ack", bit |-> 32] >>
                   ELSE << >>
        IN  /\ mmio' = ack \o StoresUntilTimeout(steps, 1, last'.w)
            /\ ReachesIdentify(Stopping, last'.w) => inprogress' \subseteq {tag}
            /\ (last'.op = "bringup" /\ last'.ret) => EveryWaitOk(steps, last'.w) ]_vars

\* init gave up at the wait for CMD.CLO: ST is not set and IE not written.
C15_Witness ==
  /\ last.op = "bringup" /\ ~last.ret
  /\ last.w["cr1"] /\ last.w["fr"] /\ last.w["cr2"] /\ ~last.w["clo"]
  /\ 3 \in regs.cmd /\ 0 \notin regs.cmd /\ regs.ie = {}

\* IDENTIFY DEVICE sits in slot t with one PRD of 512 bytes on the buffer.
IdentifyIn(l, c, t) ==
  /\ c[t].cfis.command = 236
  /\ PrdCount(l[t]) = 1
  /\ c[t].prd[0].dbc = Small(511)
  /\ c[t].prd[0].dba = addr2phys(IdentifyBuffer)

\* C17: every run of init that gets as far as IDENTIFY, at bring-up or from
\* irq(), issues IDENTIFY DEVICE into command slot 0 with one PRD of 512 bytes
\* and waits for CI bit 0 to clear.
C17_IdentifyInSlot0 ==
  [][ (InitRuns /\ ReachesIdentify(Stopping, last'.w)) =>
        /\ CiBits(mmio') = <<0>>
        /\ IdentifyIn(cl', ct', 0)
        /\ last'.w["ci"] => 0 \notin regs'.ci ]_vars

\* C17 as amended: every run of init that gets as far as IDENTIFY issues
\* IDENTIFY DEVICE into the slot under the cursor, slot 0 at bring-up, with one
\* PRD of 512 bytes, and waits for the CI bit of that slot to clear.
C17_IdentifyInCursorSlot ==
  [][ (InitRuns /\ ReachesIdentify(Stopping, last'.w)) =>
        /\ CiBits(mmio') = <<tag>>
        /\ IdentifyIn(cl', ct', tag)
        /\ last'.op = "bringup" => tag = 0
        /\ IF last'.w["ci"]
           THEN tag \notin regs'.ci /\ tag \notin inprogress'
           ELSE tag \in regs'.ci /\ (last'.op = "bringup" => ~last'.ret) ]_vars

\* irq() re-ran init on TFD.ERR and IDENTIFY went into slot 1.
C17_Witness ==
  /\ last.op = "irq" /\ last.err /\ ReachesIdentify(TRUE, last.w) /\ last.w["ci"]
  /\ CiBits(mmio) = <<1>> /\ IdentifyIn(cl, ct, 1) /\ tag = 0

\* receive handed a command to the device.
Started == last'.op = "receive" /\ last'.ret /\ last'.msg.type \in Requests

\* C18: the cursor moves by one, modulo max_slots, for each command written to
\* CI, and the command goes into the slot the cursor named; a rejected READ or
\* WRITE, GET_PARAMS, a message for another disk, an irq() that only reports
\* completions and the device leave the cursor where it is.
C18_CursorFrame ==
  [][ /\ last'.op \in {"bringup", "receive", "irq"}
         => tag' = (tag + Len(CiBits(mmio'))) % max_slots
      /\ last'.op = "device" => tag' = tag
      /\ Started => (CiBits(mmio') = <<tag>> /\ tag \in inprogress')
      /\ (last'.op = "receive" /\ ~Started) => (tag' = tag /\ CiBits(mmio') = << >>)
      /\ (last'.op = "irq" /\ ~last'.err) => (tag' = tag /\ CiBits(mmio') = << >>) ]_vars

\* A READ was rejected with the cursor on slot 1, where it stays.
C18_Witness ==
  /\ last.op = "receive" /\ last.msg.type = "DISK_READ" /\ last.msg.disknr = disknr
  /\ ~last.ret /\ tag = 1 /\ nsub = 2

\* C14: irq() never sees a slot between start_command's update of in_progress
\* and its write of CI: every commit for a consumer request is for a command
\* that was written to CI, and no request is reported twice because an update
\* of in_progress was lost.
C14_CommitOnlyIfIssued ==
  /\ \A i \in 1 .. Len(bus_commit) :
       IsRequest(bus_commit[i].for) => bus_commit[i].for \in hist.submitted
  /\ \A i, j \in 1 .. Len(bus_commit) :
       (i # j /\ IsRequest(bus_commit[i].for)) => bus_commit[i].for # bus_commit[j].for

\* Port n has an entry in bus_disk.
OnBus(n) == \E i \in 1 .. Len(hba.bus) : hba.bus[i].port = n

\* C12: a port the constructor has passed is on the disk bus if and only if its
\* PI bit is set, its SIG is not 0xffffffff and its init returned 0; the disk
\* number of a port on the bus is the number it was added under; the numbers
\* are consecutive and rise with the port number, so a port whose init failed
\* takes none.
C12_RegisteredIffInitOk ==
  hba.phase # "none" =>
    /\ \A n \in HbaPorts :
         OnBus(n) <=> (/\ n < hba.next
                       /\ n \in hba.pi /\ n \notin hba.sig_bad
                       /\ n \in hba.initok)
    /\ \A i \in 1 .. Len(hba.bus) :
         /\ hba.bus[i].nr = i - 1
         /\ hba.bus[i].port >= 0 => hba.port[hba.bus[i].port].disknr = hba.bus[i].nr
    /\ \A i, j \in 1 .. Len(hba.bus) :
         i < j => hba.bus[i].port < hba.bus[j].port

\* Ports 0 and 2 came up, port 1 failed in init, and another disk was there
\* before: the ports are disks 1 and 2.
C12_Witness ==
  /\ hba.phase = "run"
  /\ hba.bus = << OtherDisk, [port |-> 0, nr |-> 1], [port |-> 2, nr |-> 2] >>
  /\ 1 \in DOMAIN hba.port /\ 1 \notin hba.initok

\* The irq() calls on the ports of S, lowest port first.
RECURSIVE IrqCalls(_)
IrqCalls(S) ==
  IF S = {} THEN << >>
  ELSE LET p == CHOOSE x \in S : \A y \in S : x <= y
       IN  << HbaLog("irq", p, {}) >> \o IrqCalls(S \ {p})

\* C16: a MessageIrq for the HBA's line of type ASSERT_IRQ makes the HBA read
\* IS once, call irq() once on each port that has its IS bit set and a port
\* driver, lowest port first, then write the value read back to IS and return
\* true; any other MessageIrq returns false, touches no register and calls no
\* port.
C16_IrqDemux ==
  [][ hba'.op = "receive" =>
        IF hba'.msg.line = "hostirq" /\ hba'.msg.type = "ASSERT_IRQ"
        THEN /\ hba'.ret
             /\ hba'.log = << HbaLog("read_is", 0 - 1, hba.is) >>
                           \o IrqCalls(hba.is \cap DOMAIN hba.port)
                           \o << HbaLog("write_is", 0 - 1, hba.is) >>
        ELSE /\ ~hba'.ret
             /\ hba'.log = << >>
             /\ hba'.is = hba.is /\ hba'.port = hba.port ]_vars

\* Three IS bits were set, two of the ports have a driver.
C16_Witness ==
  /\ hba.op = "receive" /\ hba.ret
  /\ Len(hba.log) = 4 /\ hba.log[1].val = HbaPorts
  /\ hba.log[2].port < hba.log[3].port /\ hba.is = {}

====
